---- MODULE Spec2Model ----
(***************************************************************************)
(* Insurance claim pipeline (claim_graph_v3), its stage agents, the Claim  *)
(* Store (claims.db), the Investigator Pool (investigators.db) and the     *)
(* override endpoints, as a state machine.                                 *)
(*                                                                         *)
(* Conventions                                                             *)
(*   - Python None / "" is the empty string "" for text fields and 0 for   *)
(*     transaction ids and timestamps (both are falsy in the source).      *)
(*   - fraud scores are kept in hundredths (0.70 is 70); a score is the    *)
(*     record [k, v] with k in {"none", "num", "nan"}; comparisons with a  *)
(*     NaN score are false, as in Python.                                  *)
(*   - updated_at / assigned_at columns are not modelled.                  *)
(*   - free text (description, OCR output) is a sequence of chunks         *)
(*     [id, len]: the first len characters of the text called id; the      *)
(*     empty sequence is "" / None.                                        *)
(***************************************************************************)
EXTENDS Integers, Sequences, FiniteSets, TLC

\* ------------------------------------------------------------------ bounds
MaxClaims == 1
NumRuns == 2
MaxStarts == 3
MaxOverrides == 2
MaxLoad == 4
MaxFlowLog == 8

TxIds == 1..MaxClaims
Runs == 1..NumRuns

\* ------------------------------------------------- claim_graph_v3 thresholds
FRAUD_ESCALATION_THRESHOLD == 70
HIGH_AMOUNT_THRESHOLD == 300000

\* ---------------------------------------------- registration_agent constant
MAX_TEXT_LEN == 50000

\* ------------------------------------------------------------ input domains
Amounts == {300000, 500000}
ClaimTypes == {"fraud", "travel"}

\* --------------------------------------------------------------- fraud score
NoScore == [k |-> "none", v |-> 0]
NaN == [k |-> "nan", v |-> 0]
Num(n) == [k |-> "num", v |-> n]

\* Python: score >= n  (False when score is NaN)
ScoreGE(s, n) == s.k = "num" /\ s.v >= n
\* Python: score < n   (False when score is NaN)
ScoreLT(s, n) == s.k = "num" /\ s.v < n

\* ------------------------------------------------------------- ClaimState
\* backend/state/claim_state.py: the defaults of a freshly built aggregate.
NewClaimState ==
  [ transaction_id |-> 0, amount |-> 0, claim_type |-> "",
    extracted_text |-> << >>,
    documents |-> << >>,
    validation |-> [required_missing |-> {}, errors |-> FALSE, docs_ok |-> FALSE],
    claim_registered |-> FALSE, registered_at |-> 0,
    claim_validated |-> FALSE,
    fraud_checked |-> FALSE, fraud_score |-> NoScore, fraud_decision |-> "",
    assignment |-> [investigator_id |-> "", reason |-> ""],
    claim_decision_made |-> FALSE, claim_approved |-> FALSE,
    payment_processed |-> FALSE, claim_closed |-> FALSE,
    final_decision |-> "",
    logs |-> << >> ]

\* claim_state.py DocumentRecord: the classified type and the OCR text
DocumentRecord(doc_type, text) == [doc_type |-> doc_type, extracted_text |-> text]

\* the doc_type values of the aggregate's documents
DocTypesOf(state) ==
  { state.documents[i].doc_type : i \in 1..Len(state.documents) }

\* ------------------------------------------------------------- Claim Store
\* One row of the claims table (sqlite_store.py init_db and
\* _ensure_claims_extra_columns); exists = FALSE is "no such row".
NoRow ==
  [ exists |-> FALSE, amount |-> 0, claim_type |-> "", registered_at |-> 0,
    extracted_text |-> << >>, doc_rows |-> << >>,
    status |-> "", final_decision |-> "", manager_comment |-> "",
    fraud_score |-> NoScore, fraud_decision |-> "",
    investigator_id |-> "", assignment_reason |-> "", assignment_status |-> "" ]

\* ------------------------------------------------------- Investigator Pool
InvOrder == << "INV001", "INV002", "INV003", "INV004", "INV005",
               "INV006", "INV007", "INV008", "INV009", "INV010" >>
InvIds == { InvOrder[i] : i \in 1..Len(InvOrder) }

Inv(s, a, m, st) == [specialization |-> s, active_cases |-> a, max_cases |-> m, status |-> st]

\* investigator_store.py seed_investigators
SeedPool ==
  [ i \in InvIds |->
      CASE i = "INV001" -> Inv("motor", 1, 5, "ACTIVE")
        [] i = "INV002" -> Inv("health", 2, 5, "ACTIVE")
        [] i = "INV003" -> Inv("motor", 0, 3, "ACTIVE")
        [] i = "INV004" -> Inv("health", 3, 4, "ACTIVE")
        [] i = "INV005" -> Inv("fraud", 1, 2, "ACTIVE")
        [] i = "INV006" -> Inv("motor", 2, 5, "ACTIVE")
        [] i = "INV007" -> Inv("health", 0, 5, "ACTIVE")
        [] i = "INV008" -> Inv("fraud", 0, 3, "ACTIVE")
        [] i = "INV009" -> Inv("motor", 4, 5, "ACTIVE")
        [] OTHER        -> Inv("health", 1, 4, "INACTIVE") ]

\* ------------------------------------------------------------------- text
\* A string is kept as its upper-cased, trimmed word plus what upper() and
\* strip() would change: whether it has lower-case letters and whether it
\* carries surrounding whitespace.
Text(w, c, p) == [word |-> w, cased |-> c, padded |-> p]
\* str.upper()
Upper(x) == [x EXCEPT !.cased = "upper"]
\* str.strip()
Strip(x) == [x EXCEPT !.padded = FALSE]
\* the string literal w, as written in the source
Lit(w) == Text(w, "upper", FALSE)

\* ------------------------------------------------------ Completion Service
\* What the "fraud_score" key of a decoded object can hold.
ScoreFields ==
  { [k |-> "missing", v |-> 0], [k |-> "null", v |-> 0], [k |-> "list", v |-> 0],
    [k |-> "text", v |-> 0], [k |-> "nan", v |-> 0], [k |-> "inf", v |-> 0],
    [k |-> "bigint", v |-> 0], [k |-> "bool", v |-> 1] }
  \cup { [k |-> "num", v |-> n] : n \in {-20, 0, 69, 70, 85, 100, 150} }
  \cup { [k |-> "numstr", v |-> n] : n \in {85, 150} }

\* What the "fraud_decision" key of a decoded object can hold.
DecisionFields ==
  { [k |-> "missing", s |-> Lit("")], [k |-> "null", s |-> Lit("")],
    [k |-> "str", s |-> Lit("SUSPECT")],
    [k |-> "str", s |-> Text("SUSPECT", "lower", TRUE)],
    [k |-> "str", s |-> Lit("SAFE")],
    [k |-> "str", s |-> Lit("FRAUD")] }

\* A JSON value: its type t, the two keys fraud scoring reads, and marker:
\* whether one of its strings holds a fence marker (``` or ~~~).
Obj(sc, d) == [t |-> "obj", score |-> sc, decision |-> d, marker |-> FALSE]
NonObj(t) == [t |-> t, score |-> [k |-> "missing", v |-> 0],
              decision |-> [k |-> "missing", s |-> Lit("")], marker |-> FALSE]
Marked(j) == [j EXCEPT !.marker = TRUE]

\* Values a JSON text can decode to.  "num" is a decimal such as 0.85;
\* "garbage" is text that is not JSON and holds neither a fence nor a brace;
\* "huge" is JSON that json.loads cannot decode within the interpreter's
\* limits (an integer of more than 4300 digits, nesting beyond the recursion
\* limit): it raises ValueError / RecursionError, not JSONDecodeError.
JsonValues ==
  { Obj(sc, d) : sc \in ScoreFields, d \in DecisionFields }
  \cup { NonObj(t) : t \in {"num", "list", "str", "bool", "null", "garbage", "huge"} }
  \cup { Marked(Obj([k |-> "num", v |-> 85], [k |-> "str", s |-> Lit("SUSPECT")])),
         Marked(NonObj("list")) }

\* the layouts in which the payload sits in a fenced block with prose before
\* and after: with a language tag, without one, and with a tag and prose
\* that holds a brace or a double quote
FencedForms == {"fenced", "fenced_untagged", "fenced_braces"}

\* A completion: its layout (bare, inside a ``` / ~~~ fence with prose around
\* it, or embedded in prose) and the value its payload decodes to.
RawTexts ==
  { [form |-> f, json |-> j] : f \in {"plain", "prose"} \cup FencedForms, j \in JsonValues }
  \cup { [form |-> f, json |-> NonObj("garbage")] : f \in {"empty", "nontext"} }

\* fraud_agent.py:36,42,47
FraudFallback == Obj([k |-> "num", v |-> 0], [k |-> "str", s |-> Lit("SAFE")])

\* json.loads succeeded (safe_json.py _try_json_loads returned non-None)
Decodes(j) == j.t \notin {"garbage", "null", "huge"}

\* the outcome of safe_json_parse when an exception leaves it
ParserRaises == NonObj("raise")

\* safe_json.py FENCE_RE / _extract_from_fence followed by _try_json_loads:
\* the first fenced block decodes to the payload.  The lazy match ends at the
\* first marker, so a marker inside a string cuts the block short; without a
\* language tag, a payload made of letters and digits only (true, false,
\* null) is taken for the tag and the block is empty.
FenceDecodes(result) ==
  /\ Decodes(result.json)
  /\ ~result.json.marker
  /\ ~(result.form = "fenced_untagged" /\ result.json.t = "bool")

\* safe_json.py _extract_first_balanced_json on the whole text followed by
\* _try_json_loads: the first balanced {...} outside a string is the payload
BalancedDecodes(result) ==
  /\ result.json.t = "obj"
  /\ result.form # "fenced_braces"

\* safe_json.py safe_json_parse
safe_json_parse(result, fallback) ==
  IF result.form \in {"empty", "nontext"} THEN fallback
  ELSE IF result.json.t = "huge" THEN ParserRaises
  ELSE IF result.form = "plain"
  THEN IF Decodes(result.json) THEN result.json ELSE fallback
  ELSE IF result.form \in FencedForms /\ FenceDecodes(result) THEN result.json
  ELSE IF BalancedDecodes(result) THEN result.json
  ELSE fallback

\* float(data.get("fraud_score", 0.0)) followed by the two clamps;
\* "raise" is an exception that the except clause does not catch.
SanitizeScore(f) ==
  CASE f.k = "missing" -> Num(0)
    [] f.k \in {"null", "list"} -> Num(0)
    [] f.k = "text" -> Num(0)
    [] f.k = "nan" -> NaN
    [] f.k = "inf" -> Num(100)
    [] f.k = "bool" -> Num(IF f.v = 0 THEN 0 ELSE 100)
    [] f.k = "bigint" -> [k |-> "raise", v |-> 0]
    [] OTHER -> Num(IF f.v < 0 THEN 0 ELSE IF f.v > 100 THEN 100 ELSE f.v)

\* str(data.get("fraud_decision", "SAFE")).strip().upper()
SanitizeDecision(d) ==
  IF d.k = "str" /\ Upper(Strip(d.s)) = Lit("SUSPECT") THEN "SUSPECT" ELSE "SAFE"

\* fraud_agent.py _sanitize_result; ok = FALSE when it raises
\* (AttributeError on a non-object, OverflowError on a huge integer).
_sanitize_result(data) ==
  IF data.t # "obj" \/ SanitizeScore(data.score).k = "raise"
  THEN [ok |-> FALSE, fraud_score |-> NoScore, fraud_decision |-> ""]
  ELSE [ok |-> TRUE, fraud_score |-> SanitizeScore(data.score),
        fraud_decision |-> SanitizeDecision(data.decision)]

\* What one call of the Completion Service does for fraud_agent: no
\* credential, an exception, or a returned completion.
FraudReplies ==
  { [kind |-> "nokey", text |-> [form |-> "empty", json |-> NonObj("garbage")]],
    [kind |-> "raise", text |-> [form |-> "empty", json |-> NonObj("garbage")]] }
  \cup { [kind |-> "text", text |-> x] : x \in RawTexts }

\* fraud_agent.py fraud_agent: the text handed to the parser
FraudRawResult(reply) ==
  IF reply.kind \in {"nokey", "raise"}
  THEN [form |-> "plain", json |-> FraudFallback]
  ELSE reply.text

\* fraud_agent.py fraud_agent; ok = FALSE when the call raises
fraud_agent(state, reply) ==
  LET cleaned == _sanitize_result(safe_json_parse(FraudRawResult(reply), FraudFallback))
  IN  IF cleaned.ok
      THEN [ok |-> TRUE,
            st |-> [state EXCEPT !.fraud_checked = TRUE,
                                 !.fraud_score = cleaned.fraud_score,
                                 !.fraud_decision = cleaned.fraud_decision]]
      ELSE [ok |-> FALSE, st |-> state]

\* ------------------------------------------------------------- validation
\* What one call of the Completion Service does for llm_validation_agent.
\* "json" is a JSON object of the expected shape.  "nonobject" is JSON that
\* is not an object, "wrongshape" an object whose list fields hold something
\* else (ValidationResult rejects it), "nokeys" an object without the
\* expected keys, "textflag" an object whose validation_passed is a
\* non-empty string.
ValidationReplies ==
  { [kind |-> k, passed |-> FALSE, errors |-> FALSE] :
      k \in {"raise", "empty", "nontext", "ratelimit", "unparsable", "nonobject",
             "wrongshape", "nokeys"} }
  \cup { [kind |-> "textflag", passed |-> TRUE, errors |-> FALSE] }
  \cup { [kind |-> "json", passed |-> p, errors |-> e] : p \in BOOLEAN, e \in BOOLEAN }

\* an agent that takes every JSON object as the model's answer
AcceptedAsAnswerAnyObject(reply) ==
  reply.kind \in {"json", "nokeys", "textflag", "wrongshape"}

\* llm_validation_agent.py:110-113: the object is read with parsed.get and
\* defaults, so any JSON object ValidationResult accepts is taken as the
\* model's answer
AcceptedAsAnswer(reply) == reply.kind \in {"json", "nokeys", "textflag"}

\* llm_validation_agent.py _fallback_validation: the required document types
RequiredDocs(claim_type) ==
  CASE claim_type = "motor" -> {"fir", "itemized_invoice", "payment_receipt", "id_proof"}
    [] claim_type = "health" -> {"discharge_summary", "itemized_invoice", "payment_receipt", "id_proof"}
    [] OTHER -> {"itemized_invoice", "payment_receipt", "id_proof"}

\* llm_validation_agent.py _fallback_validation
_fallback_validation(state) ==
  LET missing == RequiredDocs(state.claim_type) \ DocTypesOf(state)
  IN  [state EXCEPT
         !.validation = [required_missing |-> missing, errors |-> FALSE,
                         docs_ok |-> (missing = {})],
         !.claim_validated = (missing = {}),
         !.logs = Append(@, "[validation_llm] Fallback rule-based used.")]

\* llm_validation_agent.py llm_validation_agent
llm_validation_agent(state, reply) ==
  LET s0 == [state EXCEPT !.logs = Append(@, "[validation_llm] start")]
  IN  IF AcceptedAsAnswer(reply)
      THEN [s0 EXCEPT
              !.validation = [required_missing |-> {}, errors |-> reply.errors,
                              docs_ok |-> reply.passed],
              !.claim_validated = reply.passed,
              !.logs = Append(@, "[validation_llm] extracted")]
      ELSE _fallback_validation(
             [s0 EXCEPT !.logs = Append(@, "[validation_llm] " \o reply.kind \o " -> fallback")])

\* ----------------------------------------------------------- registration
Chunk(id, n) == [id |-> id, len |-> n]
\* the separator "\n\n" of the join
Sep == Chunk("sep", 2)

\* text[:n]
RECURSIVE Truncate(_, _)
Truncate(t, n) ==
  IF t = << >> \/ n <= 0 THEN << >>
  ELSE IF Head(t).len <= n THEN << Head(t) >> \o Truncate(Tail(t), n - Head(t).len)
  ELSE << [Head(t) EXCEPT !.len = n] >>

\* str.strip() of a text: separators at either end are white space; the
\* other chunks begin and end with a printing character
RECURSIVE StripText(_)
StripText(t) ==
  IF t = << >> THEN << >>
  ELSE IF Head(t).id = "sep" THEN StripText(Tail(t))
  ELSE IF t[Len(t)].id = "sep" THEN StripText(SubSeq(t, 1, Len(t) - 1))
  ELSE t

\* "\n\n".join(parts)
RECURSIVE JoinParts(_)
JoinParts(parts) ==
  IF parts = << >> THEN << >>
  ELSE IF Len(parts) = 1 THEN parts[1]
  ELSE parts[1] \o << Sep >> \o JoinParts(Tail(parts))

\* registration_agent.py _aggregate_extracted_text
_aggregate_extracted_text(state) ==
  LET parts == << state.extracted_text >>
               \o [i \in 1..Len(state.documents) |-> state.documents[i].extracted_text]
      kept == SelectSeq(parts, LAMBDA q : StripText(q) # << >>)
      combined == JoinParts([i \in 1..Len(kept) |-> StripText(kept[i])])
  IN  Truncate(combined, MAX_TEXT_LEN)

\* registration that stamps registered_at on every call
registration_agent_restamp(state, fresh, now) ==
  [state EXCEPT
     !.transaction_id = IF @ = 0 THEN fresh ELSE @,
     !.claim_registered = TRUE,
     !.registered_at = now,
     !.extracted_text = IF _aggregate_extracted_text(state) # << >>
                        THEN _aggregate_extracted_text(state) ELSE @,
     !.logs = Append(@, "[registration] saved")]

\* registration_agent.py registration_agent, lines 21-30 and 52: the fields of
\* the aggregate it sets; fresh is the uuid4 drawn, now the current time.
registration_agent(state, fresh, now) ==
  [state EXCEPT
     !.transaction_id = IF @ = 0 THEN fresh ELSE @,
     !.claim_registered = TRUE,
     !.registered_at = IF @ = 0 THEN now ELSE @,
     !.extracted_text = IF _aggregate_extracted_text(state) # << >>
                        THEN _aggregate_extracted_text(state) ELSE @,
     !.logs = Append(@, "[registration] saved")]

\* sqlite_store.py insert_documents as registration_agent calls it (lines
\* 45-50): one new claim_documents row per document of the aggregate, after
\* the rows the transaction already has
insert_documents(row, state) ==
  [row EXCEPT !.doc_rows = @ \o
     [i \in 1..Len(state.documents) |->
        [state.documents[i] EXCEPT !.extracted_text = Truncate(@, MAX_TEXT_LEN)]]]

\* sqlite_store.py upsert_claim_registration: INSERT ... ON CONFLICT DO UPDATE
\* of the registration columns; the other columns of an existing row stay.
upsert_claim_registration(row, state) ==
  [row EXCEPT !.exists = TRUE, !.amount = state.amount,
              !.claim_type = state.claim_type,
              !.extracted_text = state.extracted_text,
              !.registered_at = state.registered_at,
              !.status = "REGISTERED"]

\* registration_agent.py lines 33-50: the two writes of the stage
persist_registration(row, state) ==
  insert_documents(upsert_claim_registration(row, state), state)

\* ----------------------------------------------------------------- manager
\* manager_agent.py ManagerAgent.decide_next_step
decide_next_step(state) ==
  IF ~state.claim_registered THEN "registration_agent"
  ELSE IF ~state.claim_validated THEN "validation_agent"
  ELSE IF ~state.fraud_checked THEN "fraud_agent"
  ELSE IF ~state.claim_decision_made THEN "decision_agent"
  ELSE IF state.claim_approved /\ ~state.payment_processed THEN "payment_agent"
  ELSE IF state.payment_processed /\ ~state.claim_closed THEN "closure_agent"
  ELSE "end"

\* a manager that looks at the approved flag before the fraud score
FinalizeDecisionApprovedFirst(state) ==
  IF ~state.validation.docs_ok
  THEN [final_decision |-> "PENDING_DOCUMENTS", status |-> "PENDING_DOCUMENTS"]
  ELSE IF state.claim_approved
  THEN [final_decision |-> "APPROVED", status |-> "APPROVED"]
  ELSE IF ScoreGE(state.fraud_score, 70)
  THEN [final_decision |-> "ESCALATED_TO_SIU", status |-> "UNDER_INVESTIGATION"]
  ELSE [final_decision |-> "REJECTED", status |-> "REJECTED"]

\* manager_agent.py ManagerAgent.finalize_claim: the decision and the status
\* it writes
FinalizeDecision(state) ==
  IF ~state.validation.docs_ok
  THEN [final_decision |-> "PENDING_DOCUMENTS", status |-> "PENDING_DOCUMENTS"]
  ELSE IF ScoreGE(state.fraud_score, 70)
  THEN [final_decision |-> "ESCALATED_TO_SIU", status |-> "UNDER_INVESTIGATION"]
  ELSE IF state.claim_approved
  THEN [final_decision |-> "APPROVED", status |-> "APPROVED"]
  ELSE [final_decision |-> "REJECTED", status |-> "REJECTED"]

\* manager_agent.py ManagerAgent.run: finalize_claim is called only when
\* decide_next_step answers "end".
ManagerFinalizes(state) == decide_next_step(state) = "end"

\* ------------------------------------------------------------------ router
\* a router that looks at docs_ok only
route_after_validation_docs_only(state) ==
  IF ~state.validation.docs_ok THEN "manager" ELSE "fraud"

\* claim_graph_v3.py route_after_validation
route_after_validation(state) ==
  IF ~state.validation.docs_ok \/ state.validation.errors THEN "manager" ELSE "fraud"

\* a router that escalates from the amount threshold on
route_after_fraud_inclusive(state) ==
  IF ScoreGE(state.fraud_score, FRAUD_ESCALATION_THRESHOLD)
     \/ state.amount >= HIGH_AMOUNT_THRESHOLD
  THEN "investigator" ELSE "manager"

\* claim_graph_v3.py route_after_fraud; an unset amount is 0
route_after_fraud(state) ==
  IF ScoreGE(state.fraud_score, FRAUD_ESCALATION_THRESHOLD)
     \/ state.amount > HIGH_AMOUNT_THRESHOLD
  THEN "investigator" ELSE "manager"

\* claim_graph_v3.py build_claim_graph_v3: the node that follows node n
NextNode(n, state) ==
  CASE n = "register" -> "validate"
    [] n = "validate" -> route_after_validation(state)
    [] n = "fraud" -> route_after_fraud(state)
    [] n = "investigator" -> "manager"
    [] OTHER -> "END"

\* -------------------------------------------------------------------- pool
\* investigator_store.py get_available_investigator: the candidates of the
\* WHERE clause
Eligible(p, claim_type) ==
  { i \in InvIds : /\ p[i].specialization = claim_type
                   /\ p[i].status = "ACTIVE"
                   /\ p[i].active_cases < p[i].max_cases }

\* position of an investigator in the table (insertion order)
InvPos(i) == CHOOSE n \in 1..Len(InvOrder) : InvOrder[n] = i

\* a query without ORDER BY: the first row of the table that qualifies
get_available_investigator_first(p, claim_type) ==
  LET c == Eligible(p, claim_type)
  IN  IF c = {} THEN ""
      ELSE CHOOSE i \in c : \A j \in c : InvPos(i) <= InvPos(j)

\* investigator_store.py get_available_investigator: ORDER BY active_cases
\* LIMIT 1, rows of equal load in table order; "" when no row qualifies.
get_available_investigator(p, claim_type) ==
  LET c == Eligible(p, claim_type)
  IN  IF c = {} THEN ""
      ELSE CHOOSE i \in c : \A j \in c :
             \/ p[i].active_cases < p[j].active_cases
             \/ p[i].active_cases = p[j].active_cases /\ InvPos(i) <= InvPos(j)

\* investigator_store.py increment_investigator_load
increment_investigator_load(p, i) ==
  [p EXCEPT ![i].active_cases = @ + 1]

\* a decrement without the floor at zero
decrement_investigator_load_unclamped(p, i) ==
  [p EXCEPT ![i].active_cases = @ - 1]

\* investigator_store.py decrement_investigator_load: CASE WHEN active_cases
\* > 0 THEN active_cases - 1 ELSE 0 END
decrement_investigator_load(p, i) ==
  [p EXCEPT ![i].active_cases = IF @ > 0 THEN @ - 1 ELSE 0]

VARIABLES claims, pool, run, clock, starts, ovr, status_reply

vars == << claims, pool, run, clock, starts, ovr, status_reply >>

\* A pipeline task that is not running.
IdleRun == [pc |-> "idle", st |-> NewClaimState, sel |-> "", trace |-> << >>,
            llm |-> << >>, outcome |-> "none"]

NoOverride == [result |-> "none", count |-> 0]

\* No status request has been answered yet.
NoReply == [result |-> "none", status |-> "", final_decision |-> ""]

\* sqlite_store.py update_claim_fields: UPDATE claims SET ... WHERE
\* transaction_id = t; a missing row makes it a no-op.  fields is the record
\* of the columns to set.
update_claim_fields(c, t, fields) ==
  IF t \in DOMAIN c /\ c[t].exists
  THEN [c EXCEPT ![t] = [col \in DOMAIN c[t] |->
                           IF col \in DOMAIN fields THEN fields[col] ELSE c[t][col]]]
  ELSE c

\* uuid.uuid4(): an identifier no claim has yet
FreshTx(c) == Cardinality({ t \in DOMAIN c : c[t].exists }) + 1

\* The replies of the Completion Service that a pipeline run is driven with:
\* one for each way a stage can end (exception and fallback, a completion
\* that decodes to a non-object, a low-risk and a high-risk object).
RaiseReply == [kind |-> "raise", text |-> [form |-> "empty", json |-> NonObj("garbage")]]
HighRiskReply ==
  [kind |-> "text", text |-> [form |-> "fenced",
     json |-> Obj([k |-> "num", v |-> 85], [k |-> "str", s |-> Text("SUSPECT", "lower", FALSE)])]]
PipelineFraudReplies ==
  { RaiseReply, HighRiskReply,
    [kind |-> "text", text |-> [form |-> "plain", json |-> NonObj("num")]] }

PassReply == [kind |-> "json", passed |-> TRUE, errors |-> FALSE]
DownReply == [kind |-> "raise", passed |-> FALSE, errors |-> FALSE]
PipelineValidationReplies ==
  { PassReply, DownReply,
    [kind |-> "json", passed |-> FALSE, errors |-> TRUE] }

Init ==
  /\ claims = [t \in TxIds |-> NoRow]
  /\ pool = SeedPool
  /\ run = [r \in Runs |-> IdleRun]
  /\ clock = 1
  /\ starts = 0
  /\ ovr = NoOverride
  /\ status_reply = NoReply

\* ------------------------------------------------------------------ actions
\* app_v3.py register_claim: a fresh aggregate goes through
\* registration_agent, which writes the claim row.
RegisterClaim(amount, claim_type) ==
  /\ FreshTx(claims) \in TxIds
  /\ LET state == registration_agent(
                    [NewClaimState EXCEPT !.amount = amount, !.claim_type = claim_type],
                    FreshTx(claims), clock)
     IN  claims' = [claims EXCEPT ![state.transaction_id] = persist_registration(@, state)]
  /\ clock' = clock + 1
  /\ UNCHANGED << pool, run, starts, ovr, status_reply >>

\* app_v3.py process_claim, lines 216-232: fetch the row, answer 404 when it
\* is missing, else rebuild the aggregate and enter the graph.
StartRun(r, t) ==
  /\ run[r].pc = "idle"
  /\ starts < MaxStarts
  /\ starts' = starts + 1
  /\ IF ~claims[t].exists
     THEN run' = [run EXCEPT ![r] = [IdleRun EXCEPT !.outcome = "notfound"]]
     ELSE run' = [run EXCEPT ![r] =
            [IdleRun EXCEPT
               !.pc = "register",
               !.st = [NewClaimState EXCEPT
                         !.transaction_id = t,
                         !.amount = claims[t].amount,
                         !.claim_type = claims[t].claim_type,
                         !.extracted_text = claims[t].extracted_text,
                         !.claim_registered = TRUE,
                         !.registered_at = claims[t].registered_at]]]
  /\ UNCHANGED << claims, pool, clock, ovr, status_reply >>

\* graph node "register": registration_agent and its upsert
RegisterStage(r) ==
  /\ run[r].pc = "register"
  /\ LET state == registration_agent(run[r].st, FreshTx(claims), clock)
     IN  /\ claims' = [claims EXCEPT ![state.transaction_id] = persist_registration(@, state)]
         /\ run' = [run EXCEPT ![r].st = state,
                               ![r].pc = NextNode("register", state),
                               ![r].trace = Append(@, "register")]
  /\ clock' = clock + 1
  /\ UNCHANGED << pool, starts, ovr, status_reply >>

\* graph node "validate": llm_validation_agent, then route_after_validation
ValidateStep(r, reply) ==
  /\ run[r].pc = "validate"
  /\ LET state == llm_validation_agent(run[r].st, reply)
     IN  run' = [run EXCEPT ![r].st = state,
                            ![r].pc = NextNode("validate", state),
                            ![r].trace = Append(@, "validate"),
                            ![r].llm = Append(@, reply)]
  /\ UNCHANGED << claims, pool, clock, starts, ovr, status_reply >>

ValidateStage(r) == \E reply \in PipelineValidationReplies : ValidateStep(r, reply)

\* graph node "fraud": fraud_agent, then route_after_fraud; an exception of
\* the agent ends the run
FraudStep(r, reply) ==
  /\ run[r].pc = "fraud"
  /\ LET res == fraud_agent(run[r].st, reply)
     IN  run' = [run EXCEPT ![r].st = res.st,
                            ![r].pc = IF res.ok THEN NextNode("fraud", res.st) ELSE "failed",
                            ![r].outcome = IF res.ok THEN @ ELSE "error",
                            ![r].trace = Append(@, "fraud"),
                            ![r].llm = Append(@, reply)]
  /\ UNCHANGED << claims, pool, clock, starts, ovr, status_reply >>

FraudStage(r) == \E reply \in PipelineFraudReplies : FraudStep(r, reply)

\* graph node "investigator", investigator_agent lines 35-53: the two guards
\* and the read of the least-loaded investigator
InvestigatorSelect(r) ==
  /\ run[r].pc = "investigator"
  /\ LET state == run[r].st
         found == get_available_investigator(pool, state.claim_type)
         skip(msg) == [run EXCEPT ![r].st.logs = Append(@, msg),
                                  ![r].pc = NextNode("investigator", state),
                                  ![r].trace = Append(@, "investigator")]
     IN  IF ~state.fraud_checked
         THEN run' = skip("[investigator] Fraud not checked")
         ELSE IF state.fraud_score.k = "none" \/ ScoreLT(state.fraud_score, 70)
         THEN run' = skip("[investigator] No escalation required")
         ELSE IF found = ""
         THEN run' = skip("[investigator] No available investigator")
         ELSE run' = [run EXCEPT ![r].sel = found,
                                 ![r].pc = "inv_increment",
                                 ![r].trace = Append(@, "investigator")]
  /\ UNCHANGED << claims, pool, clock, starts, ovr, status_reply >>

\* investigator_agent line 58: increment_investigator_load, a transaction of
\* its own
InvestigatorIncrement(r) ==
  /\ run[r].pc = "inv_increment"
  /\ pool' = increment_investigator_load(pool, run[r].sel)
  /\ run' = [run EXCEPT ![r].pc = "inv_update"]
  /\ UNCHANGED << claims, clock, starts, ovr, status_reply >>

\* investigator_agent lines 63-75: update_claim_fields, the log entry, and
\* the assignment to state.assignment_done, which ClaimState does not
\* declare: pydantic rejects it with ValueError and the run ends.
InvestigatorUpdate(r) ==
  /\ run[r].pc = "inv_update"
  /\ claims' = update_claim_fields(claims, run[r].st.transaction_id,
                  [investigator_id |-> run[r].sel,
                   assignment_reason |-> "High fraud risk",
                   assignment_status |-> "ASSIGNED"])
  /\ run' = [run EXCEPT ![r].st.logs = Append(@, "[investigator] Assigned"),
                        ![r].pc = "failed",
                        ![r].outcome = "error"]
  /\ UNCHANGED << pool, clock, starts, ovr, status_reply >>

\* graph node "manager": manager_node / ManagerAgent.run
ManagerStage(r) ==
  /\ run[r].pc = "manager"
  /\ LET state == run[r].st
         d == FinalizeDecision(state)
     IN  IF ManagerFinalizes(state)
         THEN /\ claims' = update_claim_fields(claims, state.transaction_id,
                               [final_decision |-> d.final_decision, status |-> d.status])
              /\ run' = [run EXCEPT ![r].st.final_decision = d.final_decision,
                                    ![r].pc = NextNode("manager", state),
                                    ![r].trace = Append(@, "manager")]
         ELSE /\ claims' = claims
              /\ run' = [run EXCEPT ![r].pc = NextNode("manager", state),
                                    ![r].trace = Append(@, "manager")]
  /\ UNCHANGED << pool, clock, starts, ovr, status_reply >>

\* app_v3.py process_claim, lines 241-248: the endpoint's own write
PersistResult(r) ==
  /\ run[r].pc = "END"
  /\ LET state == run[r].st
     IN  claims' = update_claim_fields(claims, state.transaction_id,
                     [final_decision |-> state.final_decision,
                      fraud_score |-> state.fraud_score,
                      fraud_decision |-> state.fraud_decision,
                      status |-> IF state.final_decision # "" THEN state.final_decision
                                 ELSE "UNDER_REVIEW"])
  /\ run' = [run EXCEPT ![r].pc = "done", ![r].outcome = "ok"]
  /\ UNCHANGED << pool, clock, starts, ovr, status_reply >>

\* the task of a run is dropped between two steps (client gone, worker killed)
Abandon(r) ==
  /\ run[r].pc \in {"register", "validate", "fraud", "investigator",
                    "inv_increment", "inv_update", "manager", "END"}
  /\ run' = [run EXCEPT ![r].pc = "abandoned", ![r].outcome = "abandoned"]
  /\ UNCHANGED << claims, pool, clock, starts, ovr, status_reply >>

\* the response is out; the task slot is free again
Finish(r) ==
  /\ run[r].pc \in {"done", "failed", "abandoned"}
  /\ run' = [run EXCEPT ![r] = IdleRun]
  /\ UNCHANGED << claims, pool, clock, starts, ovr, status_reply >>

\* --------------------------------------------------------------- override
\* The exposed override operations.  The same handler is repeated in
\* app_v2.py manager_decision (as app_v3), in mcp_server1.py and
\* app_mcp_demo.py ManagerDecisionTool (as mcp_serverv2), and mcp_server.py
\* ManagerDecisionTool calls app_v3.manager_decision.
OverrideOps ==
  { "app_v3.manager_decision", "mcp_serverv2.ManagerDecisionTool",
    "app_mcp_server1.ManagerDecisionTool", "app_v1.manager_set_decision" }

\* decision strings a caller may send
DecisionInputs ==
  { Text(w, c, p) :
      w \in {"APPROVED", "REJECTED", "ESCALATED_TO_SIU", "MANUAL_REVIEW", "BOGUS"},
      c \in {"upper", "lower"}, p \in BOOLEAN }
Comments == {"", "checked by phone"}

\* app_v3.py:272, mcp_serverv2.py:135, app_mcp_server1.py:222: decision.upper();
\* app_v1.py:434: payload.decision.strip().upper()
NormalizeDecision(op, d) ==
  IF op = "app_v1.manager_set_decision" THEN Upper(Strip(d)) ELSE Upper(d)

\* every operation accepting the five decisions of app_v1
AllowedDecisionsLax(op) ==
  { Lit(w) : w \in {"APPROVED", "REJECTED", "PENDING_DOCUMENTS",
                    "ESCALATED_TO_SIU", "MANUAL_REVIEW"} }

\* app_v3.py:274, mcp_serverv2.py:136, app_mcp_server1.py:223, app_v1.py:435:
\* the decisions the operation accepts
AllowedDecisions(op) ==
  IF op = "app_v1.manager_set_decision"
  THEN { Lit(w) : w \in {"APPROVED", "REJECTED", "PENDING_DOCUMENTS",
                         "ESCALATED_TO_SIU", "MANUAL_REVIEW"} }
  ELSE { Lit(w) : w \in {"APPROVED", "REJECTED", "PENDING_DOCUMENTS"} }

\* app_v3.py:267-270, mcp_serverv2.py:131-133: the operations that look the
\* claim up first
ChecksExistence(op) ==
  op \in {"app_v3.manager_decision", "mcp_serverv2.ManagerDecisionTool"}

\* mcp_serverv2.py:144, app_mcp_server1.py:231: manager_comment=comment
WritesComment(op) ==
  op \in {"mcp_serverv2.ManagerDecisionTool", "app_mcp_server1.ManagerDecisionTool"}

\* One override request: app_v3.py manager_decision, mcp_serverv2.py and
\* app_mcp_server1.py ManagerDecisionTool, app_v1.py manager_set_decision.
OverrideDecision(op, t, d, c) ==
  /\ ovr.count < MaxOverrides
  /\ LET dec == NormalizeDecision(op, d)
         fields == IF WritesComment(op)
                   THEN [final_decision |-> dec.word, status |-> dec.word,
                         manager_comment |-> c]
                   ELSE [final_decision |-> dec.word, status |-> dec.word]
     IN  IF ChecksExistence(op) /\ ~claims[t].exists
         THEN /\ claims' = claims
              /\ ovr' = [result |-> "notfound", count |-> ovr.count + 1]
         ELSE IF dec \notin AllowedDecisions(op)
         THEN /\ claims' = claims
              /\ ovr' = [result |-> "invalid", count |-> ovr.count + 1]
         ELSE /\ claims' = update_claim_fields(claims, t, fields)
              /\ ovr' = [result |-> "ok", count |-> ovr.count + 1]
  /\ UNCHANGED << pool, run, clock, starts, status_reply >>

Override ==
  \E op \in OverrideOps, t \in TxIds, d \in DecisionInputs, c \in Comments :
    OverrideDecision(op, t, d, c)

\* app_v3.py check_status: 404 when the row is missing, else the stored
\* status and final_decision
check_status(t) ==
  /\ status_reply' = IF ~claims[t].exists
                     THEN [NoReply EXCEPT !.result = "notfound"]
                     ELSE [result |-> "ok", status |-> claims[t].status,
                           final_decision |-> claims[t].final_decision]
  /\ UNCHANGED << claims, pool, run, clock, starts, ovr >>

\* no pipeline task is running
AllIdle == \A q \in Runs : run[q].pc = "idle"

\* The steps of one pipeline task.
Stages(r) ==
  \/ RegisterStage(r)
  \/ ValidateStage(r)
  \/ FraudStage(r)
  \/ InvestigatorSelect(r)
  \/ InvestigatorIncrement(r)
  \/ InvestigatorUpdate(r)
  \/ ManagerStage(r)
  \/ PersistResult(r)

\* Spec: claims are registered and processed, one pipeline task at a time;
\* a task may be abandoned between two steps and the claim processed again.
Next ==
  \/ \E a \in Amounts, ct \in ClaimTypes : RegisterClaim(a, ct)
  \/ \E r \in Runs, t \in TxIds : AllIdle /\ StartRun(r, t)
  \/ \E r \in Runs : Stages(r)
  \/ \E r \in Runs : Abandon(r)
  \/ \E r \in Runs : Finish(r)

Spec == Init /\ [][Next]_vars

\* SpecOverride: the override operations on their own.  Claims are
\* registered and override requests of every form arrive, one after another.
NextOverride ==
  \/ \E a \in Amounts, ct \in ClaimTypes : RegisterClaim(a, ct)
  \/ Override

SpecOverride == Init /\ [][NextOverride]_vars

\* SpecEndpoints: the three endpoints a caller addresses by transaction id
\* (status, processing, override) next to registration.  The Completion
\* Service is down, so a processing run goes register, validate, manager.
NextEndpoints ==
  \/ RegisterClaim(300000, "travel")
  \/ \E t \in TxIds : check_status(t)
  \/ \E r \in Runs, t \in TxIds : AllIdle /\ StartRun(r, t)
  \/ \E r \in Runs : RegisterStage(r)
  \/ \E r \in Runs : ValidateStep(r, DownReply)
  \/ \E r \in Runs : ManagerStage(r)
  \/ \E r \in Runs : PersistResult(r)
  \/ \E r \in Runs : Finish(r)
  \/ Override

SpecEndpoints == Init /\ [][NextEndpoints]_vars

\* SpecConc: pipeline tasks overlap.  The Completion Service validates every
\* claim and either scores it high-risk or raises.
NextConc ==
  \/ RegisterClaim(500000, "fraud")
  \/ \E r \in Runs, t \in TxIds : StartRun(r, t)
  \/ \E r \in Runs : RegisterStage(r)
  \/ \E r \in Runs : ValidateStep(r, PassReply)
  \/ \E r \in Runs : FraudStep(r, HighRiskReply)
  \/ \E r \in Runs : FraudStep(r, RaiseReply)
  \/ \E r \in Runs : InvestigatorSelect(r)
  \/ \E r \in Runs : InvestigatorIncrement(r)
  \/ \E r \in Runs : InvestigatorUpdate(r)
  \/ \E r \in Runs : ManagerStage(r)
  \/ \E r \in Runs : PersistResult(r)
  \/ \E r \in Runs : Finish(r)

SpecConc == Init /\ [][NextConc]_vars

\* SpecFraud: fraud_agent as a function.  A task stands at the fraud node
\* with a validated aggregate (its amount possibly unset) and the Completion
\* Service may answer anything.
InitFraud ==
  /\ \E a \in Amounts \cup {0}, ct \in ClaimTypes :
       /\ claims = [t \in TxIds |->
                      IF t = 1
                      THEN [NoRow EXCEPT !.exists = TRUE, !.amount = a, !.claim_type = ct,
                                         !.registered_at = 1, !.status = "REGISTERED"]
                      ELSE NoRow]
       /\ run = [r \in Runs |->
                   IF r = 1
                   THEN [IdleRun EXCEPT
                           !.pc = "fraud",
                           !.trace = << "register", "validate" >>,
                           !.llm = << PassReply >>,
                           !.st = [NewClaimState EXCEPT
                                     !.transaction_id = 1, !.amount = a, !.claim_type = ct,
                                     !.claim_registered = TRUE, !.registered_at = 1,
                                     !.claim_validated = TRUE,
                                     !.validation = [required_missing |-> {}, errors |-> FALSE,
                                                     docs_ok |-> TRUE],
                                     !.logs = << "[registration] saved", "[validation_llm] start",
                                                 "[validation_llm] extracted" >>]]
                   ELSE IdleRun]
  /\ pool = SeedPool
  /\ clock = 2
  /\ starts = 1
  /\ ovr = NoOverride
  /\ status_reply = NoReply

NextFraud == \E reply \in FraudReplies : FraudStep(1, reply)

SpecFraud == InitFraud /\ [][NextFraud]_vars

\* SpecManager: ManagerAgent.run as a function.  A task stands at the manager
\* node with an aggregate whose stage flags are set, as the stages and the
\* decision, payment and closure steps of run_claim_flow leave them.
ManagerScores == { NoScore, NaN, Num(0), Num(69), Num(70), Num(85) }

InitManager ==
  /\ \E a \in Amounts, ok \in BOOLEAN, sc \in ManagerScores,
        made \in BOOLEAN, approved \in BOOLEAN :
       /\ claims = [t \in TxIds |->
                      IF t = 1
                      THEN [NoRow EXCEPT !.exists = TRUE, !.amount = a, !.claim_type = "travel",
                                         !.registered_at = 1, !.status = "REGISTERED"]
                      ELSE NoRow]
       /\ run = [r \in Runs |->
                   IF r = 1
                   THEN [IdleRun EXCEPT
                           !.pc = "manager",
                           !.trace = << "register", "validate", "fraud" >>,
                           !.st = [NewClaimState EXCEPT
                                     !.transaction_id = 1, !.amount = a, !.claim_type = "travel",
                                     !.claim_registered = TRUE, !.registered_at = 1,
                                     !.claim_validated = TRUE,
                                     !.validation = [required_missing |-> {}, errors |-> FALSE,
                                                     docs_ok |-> ok],
                                     !.fraud_checked = TRUE,
                                     !.fraud_score = sc,
                                     !.fraud_decision = IF ScoreGE(sc, 70) THEN "SUSPECT" ELSE "SAFE",
                                     !.claim_decision_made = made,
                                     !.claim_approved = approved,
                                     !.payment_processed = approved,
                                     !.claim_closed = approved]]
                   ELSE IdleRun]
  /\ pool = SeedPool
  /\ clock = 2
  /\ starts = 1
  /\ ovr = NoOverride
  /\ status_reply = NoReply

\* the manager node, then the write of process_claim that follows it
NextManager ==
  \/ ManagerStage(1)
  \/ PersistResult(1)

SpecManager == InitManager /\ [][NextManager]_vars

\* SpecValidate: llm_validation_agent as a function.  A task stands at the
\* validate node with an aggregate of any claim type and any set of
\* classified documents, either fresh or already validated by an earlier run
\* of the stage (claim_tools.py llm_validation_tool rebuilds the aggregate
\* from what the caller hands in), and the Completion Service may answer
\* anything.
DocOrder == << "fir", "discharge_summary", "itemized_invoice", "payment_receipt", "id_proof" >>
DocTypes == { DocOrder[i] : i \in 1..Len(DocOrder) }

\* a document list holding one classified document, without OCR text, for
\* each type in S
DocsOf(S) ==
  SelectSeq([i \in 1..Len(DocOrder) |-> DocumentRecord(DocOrder[i], << >>)],
            LAMBDA d : d.doc_type \in S)
ValidatedClaimTypes == {"motor", "health", "travel"}

InitValidate ==
  /\ \E ct \in ValidatedClaimTypes, docs \in SUBSET DocTypes, validated \in BOOLEAN :
       /\ claims = [t \in TxIds |->
                      IF t = 1
                      THEN [NoRow EXCEPT !.exists = TRUE, !.amount = 300000, !.claim_type = ct,
                                         !.registered_at = 1, !.status = "REGISTERED"]
                      ELSE NoRow]
       /\ run = [r \in Runs |->
                   IF r = 1
                   THEN [IdleRun EXCEPT
                           !.pc = "validate",
                           !.trace = << "register" >>,
                           !.st = [NewClaimState EXCEPT
                                     !.transaction_id = 1, !.amount = 300000, !.claim_type = ct,
                                     !.documents = DocsOf(docs),
                                     !.claim_registered = TRUE, !.registered_at = 1,
                                     !.claim_validated = validated,
                                     !.validation = [required_missing |-> {}, errors |-> FALSE,
                                                     docs_ok |-> validated],
                                     !.logs = << "[registration] saved" >>]]
                   ELSE IdleRun]
  /\ pool = SeedPool
  /\ clock = 2
  /\ starts = 1
  /\ ovr = NoOverride
  /\ status_reply = NoReply

NextValidate == \E reply \in ValidationReplies : ValidateStep(1, reply)

SpecValidate == InitValidate /\ [][NextValidate]_vars

\* SpecPool: the two load operations of investigator_store.py called in any
\* order on the seeded pool; each call is one UPDATE statement in a
\* transaction of its own.
PoolCallIds == {"INV005", "INV008", "INV010"}

IncrementLoad(i) ==
  /\ pool[i].active_cases < MaxLoad
  /\ pool' = increment_investigator_load(pool, i)
  /\ UNCHANGED << claims, run, clock, starts, ovr, status_reply >>

DecrementLoad(i) ==
  /\ pool' = decrement_investigator_load(pool, i)
  /\ UNCHANGED << claims, run, clock, starts, ovr, status_reply >>

NextPool ==
  \/ \E i \in PoolCallIds : IncrementLoad(i)
  \/ \E i \in PoolCallIds : DecrementLoad(i)

SpecPool == Init /\ [][NextPool]_vars

\* SpecRegister: registration_agent applied repeatedly to one aggregate, as
\* claim_tools.py registration_tool does when it is handed the aggregate it
\* returned.  The aggregate carries a description and documents with or
\* without OCR text.
RegistrationTexts ==
  { << >>, << Chunk("description", 40) >>, << Chunk("description", MAX_TEXT_LEN) >> }

RegistrationDocuments ==
  { << >>,
    << DocumentRecord("id_proof", << >>) >>,
    << DocumentRecord("itemized_invoice", << Chunk("ocr_invoice", 30000) >>) >>,
    << DocumentRecord("itemized_invoice", << Chunk("ocr_invoice", 30000) >>),
       DocumentRecord("payment_receipt", << Chunk("ocr_receipt", 30000) >>) >> }

InitRegister ==
  /\ \E a \in Amounts, ct \in ClaimTypes, text \in RegistrationTexts,
        docs \in RegistrationDocuments :
       run = [r \in Runs |->
                IF r = 1
                THEN [IdleRun EXCEPT
                        !.pc = "register",
                        !.st = [NewClaimState EXCEPT
                                  !.amount = a, !.claim_type = ct,
                                  !.extracted_text = text, !.documents = docs]]
                ELSE IdleRun]
  /\ claims = [t \in TxIds |-> NoRow]
  /\ pool = SeedPool
  /\ clock = 1
  /\ starts = 0
  /\ ovr = NoOverride
  /\ status_reply = NoReply

\* claim_tools.py registration_tool: registration_agent on the aggregate
\* handed in; the aggregate it returns can be handed in again
RegistrationTool(r) ==
  /\ run[r].pc = "register"
  /\ starts < MaxStarts
  /\ starts' = starts + 1
  /\ LET state == registration_agent(run[r].st, FreshTx(claims), clock)
     IN  /\ claims' = [claims EXCEPT ![state.transaction_id] = persist_registration(@, state)]
         /\ run' = [run EXCEPT ![r].st = state,
                               ![r].trace = Append(@, "register")]
  /\ clock' = clock + 1
  /\ UNCHANGED << pool, ovr, status_reply >>

NextRegister == RegistrationTool(1)

SpecRegister == InitRegister /\ [][NextRegister]_vars

\* SpecFlow: graph_flow.py run_claim_flow on an initial aggregate with any
\* combination of lifecycle flags, with or without the required documents.
\* The loop appends to the logs on every pass; entries beyond MaxFlowLog are
\* not kept.
CapLogs(state) ==
  [state EXCEPT !.logs = IF Len(@) > MaxFlowLog THEN SubSeq(@, 1, MaxFlowLog) ELSE @]

InitFlow ==
  /\ \E docs \in {{}, RequiredDocs("travel")},
        registered \in BOOLEAN, validated \in BOOLEAN, checked \in BOOLEAN,
        made \in BOOLEAN, approved \in BOOLEAN, paid \in BOOLEAN, closed \in BOOLEAN :
       run = [r \in Runs |->
                IF r = 1
                THEN [IdleRun EXCEPT
                        !.pc = "flow",
                        !.st = [NewClaimState EXCEPT
                                  !.amount = 300000, !.claim_type = "travel",
                                  !.documents = DocsOf(docs),
                                  !.claim_registered = registered,
                                  !.claim_validated = validated,
                                  !.validation = [required_missing |-> {}, errors |-> FALSE,
                                                  docs_ok |-> validated],
                                  !.fraud_checked = checked,
                                  !.fraud_score = IF checked THEN Num(0) ELSE NoScore,
                                  !.fraud_decision = IF checked THEN "SAFE" ELSE "",
                                  !.claim_decision_made = made,
                                  !.claim_approved = approved,
                                  !.payment_processed = paid,
                                  !.claim_closed = closed]]
                ELSE IdleRun]
  /\ claims = [t \in TxIds |-> NoRow]
  /\ pool = SeedPool
  /\ clock = 1
  /\ starts = 0
  /\ ovr = NoOverride
  /\ status_reply = NoReply

\* graph_flow.py run_claim_flow, lines 42-52: the decision step
decision_step(state) ==
  [state EXCEPT
     !.claim_approved = (state.claim_validated /\ state.fraud_decision = "SAFE"),
     !.claim_decision_made = TRUE,
     !.logs = Append(@, "[decision] approved")]

\* graph_flow.py run_claim_flow, lines 26-28: the loop asks decide_next_step
\* and logs the answer
FlowDecide(r) ==
  /\ run[r].pc = "flow"
  /\ LET decision == decide_next_step(run[r].st)
     IN  run' = [run EXCEPT
                   ![r].st = CapLogs([run[r].st EXCEPT
                                        !.logs = Append(@, "[manager] routing " \o decision)]),
                   ![r].pc = "flow_stage"]
  /\ UNCHANGED << claims, pool, clock, starts, ovr, status_reply >>

\* graph_flow.py run_claim_flow, lines 30-68: the loop runs the stage that
\* decide_next_step named (the flags are as they were when it was asked);
\* vreply and freply are what the Completion Service does if the stage asks it
FlowStage(r, vreply, freply) ==
  /\ run[r].pc = "flow_stage"
  /\ LET decision == decide_next_step(run[r].st)
         s1 == run[r].st
         registered == registration_agent(s1, FreshTx(claims), clock)
         scored == fraud_agent(s1, freply)
         to(state, pc) == [run EXCEPT ![r].st = CapLogs(state), ![r].pc = pc]
     IN  /\ claims' = IF decision = "registration_agent"
                      THEN [claims EXCEPT ![registered.transaction_id] =
                                              persist_registration(@, registered)]
                      ELSE claims
         /\ clock' = IF decision = "registration_agent" THEN clock + 1 ELSE clock
         /\ run' =
              CASE decision = "registration_agent" -> to(registered, "flow")
                [] decision = "validation_agent" -> to(llm_validation_agent(s1, vreply), "flow")
                [] decision = "fraud_agent" ->
                     IF scored.ok THEN to(scored.st, "flow")
                     ELSE [to(s1, "failed") EXCEPT ![r].outcome = "error"]
                [] decision = "decision_agent" -> to(decision_step(s1), "flow")
                [] decision = "payment_agent" ->
                     to([s1 EXCEPT !.payment_processed = TRUE,
                                   !.logs = Append(@, "[payment] processed")], "flow")
                [] decision = "closure_agent" ->
                     to([s1 EXCEPT !.claim_closed = TRUE,
                                   !.logs = Append(@, "[closure] claim closed")], "flow")
                [] OTHER -> to([s1 EXCEPT !.logs = Append(@, "[flow] completed")], "flow_done")
  /\ UNCHANGED << pool, starts, ovr, status_reply >>

\* the Completion Service scores the claim high-risk or raises; neither makes
\* fraud_agent fail
FlowFraudReplies == { RaiseReply, HighRiskReply }

NextFlow ==
  \/ FlowDecide(1)
  \/ \E vreply \in PipelineValidationReplies, freply \in FlowFraudReplies :
       FlowStage(1, vreply, freply)

SpecFlow == InitFlow /\ [][NextFlow]_vars

\* FairSpecFlow: SpecFlow, where the loop keeps running.
FairSpecFlow == SpecFlow /\ WF_vars(NextFlow)

\* SpecRace: an override of a claim arrives while a pipeline run of the same
\* claim, started before any override, is in progress.  The Completion
\* Service is down.
NextRace ==
  \/ RegisterClaim(300000, "travel")
  \/ \E r \in Runs : ovr.count = 0 /\ AllIdle /\ StartRun(r, 1)
  \/ \E r \in Runs : RegisterStage(r)
  \/ \E r \in Runs : ValidateStep(r, DownReply)
  \/ \E r \in Runs : ManagerStage(r)
  \/ \E r \in Runs : PersistResult(r)
  \/ \E r \in Runs : Finish(r)
  \/ \E op \in OverrideOps, d \in DecisionInputs, c \in Comments :
       claims[1].exists /\ OverrideDecision(op, 1, d, c)

SpecRace == Init /\ [][NextRace]_vars

\* ==================================================================== claims
InTrace(r, n) == \E i \in 1..Len(run[r].trace) : run[r].trace[i] = n

\* the run of task r is over: the endpoint answered, or the error came back
Ended(r) == run[r].pc \in {"done", "failed"}

TerminalDecisions == {"APPROVED", "REJECTED", "PENDING_DOCUMENTS", "ESCALATED_TO_SIU"}

\* C1: however assignment runs interleave, no investigator's active_cases
\* exceeds its max_cases.
C1_CapacityNeverExceeded ==
  \A i \in InvIds : pool[i].active_cases <= pool[i].max_cases

\* C2: once the manager node has run in a pipeline run, final_decision is set
\* and is one of APPROVED, REJECTED, PENDING_DOCUMENTS, ESCALATED_TO_SIU.
C2_FinalDecisionSet ==
  \A r \in Runs :
    InTrace(r, "manager") => run[r].st.final_decision \in TerminalDecisions

\* C3: a run whose validation gives docs_ok = FALSE never invokes fraud
\* scoring or investigator assignment and ends with PENDING_DOCUMENTS.
C3_MissingDocsPending ==
  \A r \in Runs :
    (InTrace(r, "validate") /\ ~run[r].st.validation.docs_ok) =>
      /\ ~InTrace(r, "fraud")
      /\ ~InTrace(r, "investigator")
      /\ Ended(r) => /\ run[r].pc = "done"
                     /\ run[r].st.final_decision = "PENDING_DOCUMENTS"

\* C4: a validated claim of amount 500000 scored 0.85 goes from fraud to the
\* investigator node, then to the manager, and ends with ESCALATED_TO_SIU.
C4_HighRiskEscalated ==
  \A r \in Runs :
    ( /\ Ended(r)
      /\ run[r].st.amount = 500000
      /\ run[r].st.validation.docs_ok /\ ~run[r].st.validation.errors
      /\ run[r].st.fraud_score = Num(85) ) =>
      /\ run[r].trace = << "register", "validate", "fraud", "investigator", "manager" >>
      /\ run[r].pc = "done"
      /\ run[r].st.final_decision = "ESCALATED_TO_SIU"

\* C5: when every call of the Completion Service raises, no stage fails:
\* validation holds the rule-based result, fraud scoring (when it runs) gives
\* 0.0 / SAFE, and the run ends with a terminal final_decision.
C5_CompletionDownStillDecides ==
  \A r \in Runs :
    ( /\ Ended(r)
      /\ run[r].llm # << >>
      /\ \A i \in 1..Len(run[r].llm) : run[r].llm[i].kind = "raise" ) =>
      /\ run[r].pc = "done"
      /\ run[r].st.validation.docs_ok
           = (RequiredDocs(run[r].st.claim_type) \subseteq DocTypesOf(run[r].st))
      /\ run[r].st.fraud_checked =>
           (run[r].st.fraud_score = Num(0) /\ run[r].st.fraud_decision = "SAFE")
      /\ run[r].st.final_decision \in TerminalDecisions

\* C6: whatever text the Completion Service returns, fraud scoring completes
\* and leaves fraud_score a number within [0, 1].
C6_FraudScoreInRange ==
  \A r \in Runs :
    InTrace(r, "fraud") =>
      /\ run[r].pc # "failed"
      /\ run[r].st.fraud_score.k = "num"
      /\ run[r].st.fraud_score.v >= 0 /\ run[r].st.fraud_score.v <= 100

\* C7: transaction_id is assigned once.  No step of a run changes the
\* transaction_id or the registered_at of an aggregate that has a
\* transaction_id, re-running registration included, and the stored
\* registered_at of a claim never changes.
C7_TransactionIdAssignedOnce ==
  [][ /\ \A r \in Runs :
           (run[r].st.transaction_id # 0 /\ run'[r].pc # "idle") =>
             /\ run'[r].st.transaction_id = run[r].st.transaction_id
             /\ run'[r].st.registered_at = run[r].st.registered_at
      /\ \A t \in TxIds :
           claims[t].exists =>
             /\ claims'[t].exists
             /\ claims'[t].registered_at = claims[t].registered_at ]_vars

\* C7 witness: registration ran again on a registered claim, later than the
\* time the claim was registered at.
C7_Witness ==
  \E r \in Runs :
    /\ InTrace(r, "register")
    /\ run[r].st.transaction_id # 0
    /\ run[r].st.registered_at + 1 < clock

\* position of a node in the order register, validate, fraud, investigator,
\* manager
NodeRank(n) ==
  CASE n = "register" -> 1 [] n = "validate" -> 2 [] n = "fraud" -> 3
    [] n = "investigator" -> 4 [] OTHER -> 5

StageOrderOK(r) ==
  LET tr == run[r].trace
  IN  /\ tr # << >> => tr[1] = "register"
      /\ Len(tr) >= 2 => tr[2] = "validate"
      /\ \A i, j \in 1..Len(tr) : i < j => NodeRank(tr[i]) < NodeRank(tr[j])
      /\ run[r].pc \in {"END", "done", "failed"} => InTrace(r, "manager")
      /\ InTrace(r, "manager") =>
           (tr[Len(tr)] = "manager" /\ run[r].pc \in {"END", "done", "abandoned"})

\* C8: every run of the v3 pipeline ends; registration runs first, the stages
\* run in the order register, validate, fraud (optional), investigator
\* (optional), manager, each at most once, a run that is not abandoned goes
\* through the manager, and nothing runs after the manager.
C8_OrderedAndTerminates ==
  /\ [](\A r \in Runs : StageOrderOK(r))
  /\ \A r \in Runs : (run[r].pc = "register") ~> (run[r].pc \in {"done", "failed", "abandoned"})

\* C9: when a run is abandoned after a stage has completed, the Claim Store
\* holds that stage's outputs (here: the fraud score and decision).
C9_StoreHoldsStageOutputs ==
  \A r \in Runs :
    (run[r].pc = "abandoned" /\ InTrace(r, "fraud")) =>
      /\ claims[run[r].st.transaction_id].fraud_score = run[r].st.fraud_score
      /\ claims[run[r].st.transaction_id].fraud_decision = run[r].st.fraud_decision

ThreeDecisions == { Lit("APPROVED"), Lit("REJECTED"), Lit("PENDING_DOCUMENTS") }
FiveDecisions == ThreeDecisions \cup { Lit("ESCALATED_TO_SIU"), Lit("MANUAL_REVIEW") }

C11_UnknownIdNotFound ==
  [][ /\ \A t \in TxIds :
           (~claims[t].exists /\ check_status(t)) => status_reply'.result = "notfound"
      /\ \A r \in Runs, t \in TxIds :
           (~claims[t].exists /\ StartRun(r, t)) =>
             (run'[r].outcome = "notfound" /\ run'[r].pc = "idle" /\ claims' = claims)
      /\ \A op \in OverrideOps, t \in TxIds, d \in DecisionInputs, c \in Comments :
           (~claims[t].exists /\ OverrideDecision(op, t, d, c)) =>
             (ovr'.result = "notfound" /\ claims' = claims /\ pool' = pool /\ run' = run)
    ]_vars

\* C12: whatever goes wrong with the Completion Service (exception, empty or
\* non-text response, rate-limit signal, unparsable text, JSON of the wrong
\* shape), validation does not raise and the aggregate holds exactly the
\* ValidationResult of the rule-based strategy.
C12_ValidationFallsBack ==
  \A r \in Runs :
    ( /\ InTrace(r, "validate")
      /\ run[r].llm # << >>
      /\ run[r].llm[1].kind \in {"raise", "empty", "nontext", "ratelimit", "unparsable",
                                 "nonobject", "wrongshape", "nokeys", "textflag"} ) =>
      /\ run[r].pc # "failed"
      /\ run[r].st.validation = _fallback_validation(run[r].st).validation

\* C12 amended: validation never raises.  On an exception, an empty or
\* non-text response, a rate-limit signal, unparsable text, JSON that is not
\* an object, or an object whose fields ValidationResult rejects, the
\* aggregate holds exactly the rule-based ValidationResult.  A JSON object
\* without the expected keys, or with a non-boolean validation_passed, is
\* taken as the model's answer: no missing documents, docs_ok as the flag's
\* truth value.
C12_FallbackOnFailure ==
  \A r \in Runs :
    (InTrace(r, "validate") /\ run[r].llm # << >>) =>
      LET reply == run[r].llm[1]
          st == run[r].st
          missing == RequiredDocs(st.claim_type) \ DocTypesOf(st)
      IN  /\ run[r].pc # "failed"
          /\ reply.kind \in {"raise", "empty", "nontext", "ratelimit", "unparsable",
                             "nonobject", "wrongshape"} =>
                st.validation = [required_missing |-> missing, errors |-> FALSE,
                                 docs_ok |-> (missing = {})]
          /\ reply.kind \in {"nokeys", "textflag"} =>
                st.validation = [required_missing |-> {}, errors |-> FALSE,
                                 docs_ok |-> (reply.kind = "textflag")]

\* C12 witness: the model answered with an object ValidationResult rejects,
\* and the rule-based check passed the aggregate, which holds every required
\* document.
C12_Witness ==
  \E r \in Runs :
    /\ InTrace(r, "validate")
    /\ run[r].llm # << >> /\ run[r].llm[1].kind = "wrongshape"
    /\ run[r].st.validation.docs_ok
    /\ run[r].st.claim_type = "motor"

\* C13: whenever fraud scoring has run, fraud_checked is set; and when the
\* Completion Service has no credential or raises, the stage returns normally
\* with fraud_score 0.0 and fraud_decision SAFE.
C13_FraudCheckedAlways ==
  \A r \in Runs :
    InTrace(r, "fraud") =>
      /\ run[r].st.fraud_checked
      /\ run[r].llm[Len(run[r].llm)].kind \in {"nokey", "raise"} =>
           /\ run[r].pc # "failed"
           /\ run[r].st.fraud_score = Num(0)
           /\ run[r].st.fraud_decision = "SAFE"

\* C14: for every structured value v (an object or a list), the parser
\* applied to prose, a fenced block holding the JSON encoding of v, and more
\* prose returns v, and the parser raises on no input.
C14_FencedRoundTrip ==
  \A r \in Runs :
    (InTrace(r, "fraud") /\ run[r].llm[Len(run[r].llm)].kind = "text") =>
      LET text == run[r].llm[Len(run[r].llm)].text
      IN  /\ safe_json_parse(text, FraudFallback) # ParserRaises
          /\ (text.form \in FencedForms /\ text.json.t \in {"obj", "list"}) =>
                safe_json_parse(text, FraudFallback) = text.json

\* the node that ran last in the run of task r
LastNode(r) == IF run[r].trace = << >> THEN "" ELSE run[r].trace[Len(run[r].trace)]

\* C15: after validation the router goes to the manager exactly when docs_ok
\* is false or there are validation errors, and to fraud scoring otherwise.
C15_RouteAfterValidation ==
  \A r \in Runs :
    LastNode(r) = "validate" =>
      /\ run[r].pc \in {"manager", "fraud"}
      /\ (run[r].pc = "manager") =
           (~run[r].st.validation.docs_ok \/ run[r].st.validation.errors)

\* C15 witness: validation passed the documents but reported errors, and the
\* router went to the manager.
C15_Witness ==
  \E r \in Runs :
    /\ LastNode(r) = "validate"
    /\ run[r].st.validation.docs_ok /\ run[r].st.validation.errors
    /\ run[r].pc = "manager"

\* C16: after fraud scoring the router goes to the investigator exactly when
\* fraud_score >= 0.70 or amount > 300000 (an unset amount is 0), and to the
\* manager otherwise.
C16_RouteAfterFraud ==
  \A r \in Runs :
    (LastNode(r) = "fraud" /\ run[r].pc # "failed") =>
      LET sc == run[r].st.fraud_score
      IN  /\ run[r].pc \in {"investigator", "manager"}
          /\ (run[r].pc = "investigator") =
               ((sc.k = "num" /\ sc.v >= 70) \/ run[r].st.amount > 300000)

\* C16 witness: both boundary cases at once, a score of exactly 0.70 on a
\* claim of exactly 300000 went to the investigator.
C16_Witness ==
  \E r \in Runs :
    /\ LastNode(r) = "fraud"
    /\ run[r].st.fraud_score = Num(70) /\ run[r].st.amount = 300000
    /\ run[r].pc = "investigator"

\* C17: finalize_claim decides by the first rule that matches: docs_ok false
\* gives PENDING_DOCUMENTS, else fraud_score >= 0.70 gives ESCALATED_TO_SIU,
\* else the approved flag gives APPROVED, else REJECTED; the decision is in
\* the aggregate and in the claim row.
C17_FinalizeOrder ==
  \A r \in Runs :
    (LastNode(r) = "manager" /\ decide_next_step(run[r].st) = "end") =>
      LET st == run[r].st
          expected ==
            IF ~st.validation.docs_ok THEN "PENDING_DOCUMENTS"
            ELSE IF st.fraud_score.k = "num" /\ st.fraud_score.v >= 70 THEN "ESCALATED_TO_SIU"
            ELSE IF st.claim_approved THEN "APPROVED"
            ELSE "REJECTED"
      IN  /\ st.final_decision = expected
          /\ claims[st.transaction_id].final_decision = expected

\* C17 witness: an approved claim with valid documents and a score of 0.70
\* was escalated.
C17_Witness ==
  \E r \in Runs :
    /\ LastNode(r) = "manager"
    /\ run[r].st.claim_approved /\ run[r].st.validation.docs_ok
    /\ run[r].st.fraud_score = Num(70)
    /\ run[r].st.final_decision = "ESCALATED_TO_SIU"

\* investigator i may take a claim of category ct
Qualifies(i, ct) ==
  /\ pool[i].specialization = ct
  /\ pool[i].status = "ACTIVE"
  /\ pool[i].active_cases < pool[i].max_cases

C19_AssignmentRecorded ==
  [][ \A r \in Runs :
        /\ InvestigatorIncrement(r) =>
             pool' = [pool EXCEPT ![run[r].sel].active_cases = @ + 1]
        /\ InvestigatorUpdate(r) =>
             /\ claims'[run[r].st.transaction_id].investigator_id = run[r].sel
             /\ claims'[run[r].st.transaction_id].assignment_reason = "High fraud risk"
             /\ run'[r].pc = "manager"
             /\ run'[r].st.assignment.investigator_id = run[r].sel
             /\ run'[r].st.assignment.reason = "High fraud risk" ]_vars

\* C20: when the router has sent a claim to the investigator stage (high
\* score or high amount), fraud_checked is set and an investigator
\* qualifies, the stage assigns one.
C20_RoutedMeansAssigned ==
  \A r \in Runs :
    ( /\ LastNode(r) = "investigator"
      /\ run[r].st.fraud_checked
      /\ run[r].sel = "" ) =>
      \A j \in InvIds : ~Qualifies(j, run[r].st.claim_type)

\* C21: when the investigator stage runs and no investigator qualifies for
\* the claim's category, the stage does not raise: it appends the "No
\* available investigator" log entry, leaves the assignment empty, changes no
\* investigator record and no claim row, and the run goes on to the manager.
C21_NoInvestigatorProceeds ==
  [][ \A r \in Runs :
        ( /\ InvestigatorSelect(r)
          /\ \A j \in InvIds : ~Qualifies(j, run[r].st.claim_type) ) =>
          /\ run'[r].pc = "manager"
          /\ run'[r].st.logs =
               Append(run[r].st.logs, "[investigator] No available investigator")
          /\ run'[r].st.assignment = NewClaimState.assignment
          /\ run'[r].sel = ""
          /\ pool' = pool
          /\ claims' = claims ]_vars

\* C21, for claims escalated on their score: with fraud_score >= 0.70 and no
\* qualified investigator the stage logs "No available investigator",
\* changes neither store and goes on to the manager.
C21_HighScoreNoInvestigator ==
  [][ \A r \in Runs :
        ( /\ InvestigatorSelect(r)
          /\ ScoreGE(run[r].st.fraud_score, 70)
          /\ \A j \in InvIds : ~Qualifies(j, run[r].st.claim_type) ) =>
          /\ run'[r].pc = "manager"
          /\ run'[r].st.logs =
               Append(run[r].st.logs, "[investigator] No available investigator")
          /\ run'[r].st.assignment = NewClaimState.assignment
          /\ pool' = pool
          /\ claims' = claims ]_vars

\* C22: under any sequence of increment_investigator_load and
\* decrement_investigator_load calls every active_cases stays >= 0; a
\* decrement leaves a count of 0 at 0 and lowers a positive count by exactly
\* one, an increment raises it by one, and no other record or column changes.
C22_LoadNeverNegative ==
  [][ /\ \A i \in InvIds : pool[i].active_cases >= 0 /\ pool'[i].active_cases >= 0
      /\ \A i \in PoolCallIds :
            /\ DecrementLoad(i) =>
                 /\ pool'[i].active_cases =
                      IF pool[i].active_cases = 0 THEN 0 ELSE pool[i].active_cases - 1
                 /\ pool' = [pool EXCEPT ![i].active_cases = pool'[i].active_cases]
            /\ IncrementLoad(i) =>
                 pool' = [pool EXCEPT ![i].active_cases = pool[i].active_cases + 1] ]_vars

\* C22 witness: INV005, seeded with one active case, has been decremented to
\* 0 next to INV008, whose count of 0 a decrement leaves alone.
C22_Witness ==
  /\ pool["INV005"].active_cases = 0
  /\ pool["INV008"].active_cases = 0
  /\ pool["INV010"].active_cases = 2

\* C23: once the manager has persisted its decision, the stored status of the
\* claim equals the stored final_decision, for each of PENDING_DOCUMENTS,
\* ESCALATED_TO_SIU, APPROVED and REJECTED, before and after process_claim
\* writes its own result.
C23_StatusMirrorsDecision ==
  \A r \in Runs :
    (InTrace(r, "manager") /\ run[r].st.final_decision \in TerminalDecisions) =>
      LET row == claims[run[r].st.transaction_id]
      IN  /\ row.final_decision = run[r].st.final_decision
          /\ row.status = row.final_decision

\* the lifecycle flags of the aggregate
LifecycleFlags ==
  { "claim_registered", "claim_validated", "fraud_checked", "claim_decision_made",
    "claim_approved", "payment_processed", "claim_closed" }

\* C24: the lifecycle flags are monotonic: no run or re-run of a stage sets a
\* flag that is true back to false.
C24_FlagsMonotonic ==
  [][ \A r \in Runs :
        (run[r].pc # "idle" /\ run'[r].pc # "idle") =>
          \A f \in LifecycleFlags : run[r].st[f] => run'[r].st[f] ]_vars

\* C25: when a stage raises during a pipeline run, the step in which it
\* raises adds a record of the failure to the aggregate's logs, leaves the
\* lifecycle flags, the claim rows and the investigator loads as they were,
\* the error reaches the caller, and the failed run takes no further stage.
C25_FailureRecordedNothingChanged ==
  [][ \A r \in Runs :
        /\ (run[r].pc # "failed" /\ run'[r].pc = "failed") =>
             /\ Len(run'[r].st.logs) > Len(run[r].st.logs)
             /\ \A f \in LifecycleFlags : run'[r].st[f] = run[r].st[f]
             /\ claims' = claims
             /\ pool' = pool
             /\ run'[r].outcome = "error"
        /\ run[r].pc = "failed" => run'[r].pc \in {"failed", "idle"} ]_vars

\* C25, the part that holds: a stage that raises is not run again and the
\* error reaches the caller.
C25_NoRetry ==
  [][ \A r \in Runs :
        /\ (run[r].pc # "failed" /\ run'[r].pc = "failed") => run'[r].outcome = "error"
        /\ run[r].pc = "failed" => run'[r].pc \in {"failed", "idle"} ]_vars

\* the aggregate without its audit log
WithoutLogs(state) == [f \in DOMAIN state \ {"logs"} |-> state[f]]

\* C26: registration is idempotent: registration_agent run again on the
\* aggregate it returned leaves the aggregate (extracted_text included; the
\* audit log aside) and the Claim Store (the claim row and the ordered
\* document rows of the transaction) as the first run left them.
C26_RegistrationIdempotent ==
  [][ \A r \in Runs :
        (RegistrationTool(r) /\ InTrace(r, "register")) =>
          /\ WithoutLogs(run'[r].st) = WithoutLogs(run[r].st)
          /\ claims' = claims ]_vars

\* C26, for an aggregate without documents: a second registration changes
\* neither the aggregate nor the store.
C26_IdempotentWithoutDocuments ==
  [][ \A r \in Runs :
        (RegistrationTool(r) /\ InTrace(r, "register") /\ run[r].st.documents = << >>) =>
          /\ WithoutLogs(run'[r].st) = WithoutLogs(run[r].st)
          /\ claims' = claims ]_vars

\* C27: run_claim_flow terminates: for every initial aggregate and whatever
\* the Completion Service does, the loop eventually gets "end" from
\* decide_next_step and returns.
C27_FlowTerminates ==
  <>(run[1].pc = "flow_done")

\* C28: pool and Claim Store stay consistent across partial failure: when no
\* run stands between the two writes of the investigator stage, an
\* investigator whose active_cases has been incremented is named by the
\* persisted row of a claim (no reserved slot without a recorded assignment).
C28_NoLeakedSlot ==
  (\A r \in Runs : run[r].pc # "inv_update") =>
    \A i \in InvIds :
      pool[i].active_cases > SeedPool[i].active_cases =>
        \E t \in TxIds : claims[t].exists /\ claims[t].investigator_id = i

\* C29: each claim holds at most one reserved slot: a pipeline run for a
\* claim whose row already names an investigator increments nobody's
\* active_cases.
C29_OneSlotPerClaim ==
  [][ \A r \in Runs :
        InvestigatorIncrement(r) =>
          claims[run[r].st.transaction_id].investigator_id = "" ]_vars

\* C30: once an override of the claim has returned success, no step of a
\* pipeline run that started before it changes the stored final_decision or
\* status; they keep the override's value until the next override.
C30_OverrideNotOverwritten ==
  [][ (ovr.result = "ok" /\ ovr' = ovr) =>
        /\ claims'[1].final_decision = claims[1].final_decision
        /\ claims'[1].status = claims[1].status ]_vars

\* FairSpec: Spec, where a pipeline task that can take a step eventually
\* takes one (the task is scheduled until it ends or is abandoned).
FairSpec ==
  /\ Spec
  /\ \A r \in Runs : WF_vars(Stages(r)) /\ WF_vars(Finish(r))

====
